---- MODULE Spec2Model ----
(***************************************************************************)
(* The round-based game engine of the AmongUsGame React component          *)
(* (src/unnamed/part_000): component state, the async handlers startGame,  *)
(* runGameLoop, conductVoting, endGame, and the UI commands.               *)
(*                                                                         *)
(* Code between two awaits runs without interleaving, so every action is   *)
(* one such segment.  An async handler reads the component state through   *)
(* the closure of the render in which it was started: a start task keeps   *)
(* the betAmount and agents.length of the click, a loop task keeps the     *)
(* agents array and betAmount of the click on "Start Among Us Game".       *)
(* Functional updates (setAgents(prev => ...), setGameLog(prev => ...))    *)
(* act on the current component state.                                     *)
(*                                                                         *)
(* Units: suspicion levels are counted in steps of 0.025, STX amounts in   *)
(* hundredths of an STX.                                                   *)
(***************************************************************************)
EXTENDS Integers, Sequences, FiniteSets, TLC

\* ---------------------------------------------------------------- bounds
MaxStartTasks == 2      \* startGame calls in flight at once
MaxLoopTasks == 2       \* runGameLoop calls in flight at once
MaxEscrowCalls == 2     \* startGame clicks in one run of the model
MaxLoopStarts == 1      \* clicks on "Start Among Us Game" in one run of Spec, SpecRace, SpecScore
MaxOverlapStarts == 2   \* the same clicks in one run of SpecOverlap
MaxPerturb == 1         \* departures from the plain run in Spec: a changed bet or agent count, a
                        \* non-zero initial suspicion, a failed dialogue call, a statement that is
                        \* not neutral with zero jitter
ScoreBudget == 6        \* the same departures in SpecScore

\* ------------------------------------------------------ program constants
maxRounds == 8
VoteEvery == 3
MinAgents == 4
MaxAgents == 6
DefaultAgents == 5
MinBet == 10
PayoutTenths == 18
AccuseDelta == 4
ImpostorBonus == 2
JitterMax == 1
MaxSuspicion == 40
InitSuspicionLimit == 12

NULL == -1

\* ---------------------------------------------------------- input sets
BetChoices == {10, 20}
BalanceChoices == {20}
HotLevel == InitSuspicionLimit - 1
AgentCountOptions == MinAgents..MaxAgents
JitterChoices == (0 - JitterMax)..JitterMax
TransferResults == {"ok", "fail", "throw"}

VARIABLES
    gameState, betAmount, userBalance, agents, selectedImpostor, gameLog,
    round, error, isGameRunning, gameRunningRef,
    startTasks, loopTasks, transfers, loopStarts, budget, racing, stoppedAt, crashed

vars == <<gameState, betAmount, userBalance, agents, selectedImpostor, gameLog,
          round, error, isGameRunning, gameRunningRef,
          startTasks, loopTasks, transfers, loopStarts, budget, racing, stoppedAt, crashed>>

StartIds == 1..MaxStartTasks
LoopIds == 1..MaxLoopTasks

NullAgent == [id |-> NULL, alive |-> FALSE, isImpostor |-> FALSE, suspicionLevel |-> 0]
IsNull(a) == a.id = NULL

IdleStart == [pc |-> "idle", betAmount |-> 0, count |-> 0]
IdleLoop == [pc |-> "idle", agents |-> <<>>, betAmount |-> 0, currentRound |-> 0,
             i |-> 0, voter |-> 0, votes |-> <<>>]

\* The component state as one record, so that a segment of code is a
\* composition of updates.
World ==
    [gameState |-> gameState, betAmount |-> betAmount, userBalance |-> userBalance,
     agents |-> agents, selectedImpostor |-> selectedImpostor, gameLog |-> gameLog,
     round |-> round, error |-> error, isGameRunning |-> isGameRunning,
     gameRunningRef |-> gameRunningRef, startTasks |-> startTasks,
     loopTasks |-> loopTasks, transfers |-> transfers, loopStarts |-> loopStarts,
     budget |-> budget, racing |-> racing, stoppedAt |-> stoppedAt,
     crashed |-> crashed]

Commit(w) ==
    /\ gameState' = w.gameState
    /\ betAmount' = w.betAmount
    /\ userBalance' = w.userBalance
    /\ agents' = w.agents
    /\ selectedImpostor' = w.selectedImpostor
    /\ gameLog' = w.gameLog
    /\ round' = w.round
    /\ error' = w.error
    /\ isGameRunning' = w.isGameRunning
    /\ gameRunningRef' = w.gameRunningRef
    /\ startTasks' = w.startTasks
    /\ loopTasks' = w.loopTasks
    /\ transfers' = w.transfers
    /\ loopStarts' = w.loopStarts
    /\ budget' = w.budget
    /\ stoppedAt' = w.stoppedAt
    /\ racing' = w.racing
    /\ crashed' = w.crashed

\* ------------------------------------------------------------- helpers
SeqFilter(s, Test(_)) ==
    LET F[k \in 0..Len(s)] ==
            IF k = 0 THEN <<>>
            ELSE IF Test(s[k]) THEN Append(F[k - 1], s[k]) ELSE F[k - 1]
    IN F[Len(s)]

Max(a, b) == IF a > b THEN a ELSE b
Min(a, b) == IF a < b THEN a ELSE b

HasNull(s) == \E k \in 1..Len(s) : IsNull(s[k])

\* agents.find((a) => a.id === id); NullAgent stands for undefined
FindAgent(s, id) ==
    IF \E k \in 1..Len(s) : s[k].id = id
    THEN s[CHOOSE k \in 1..Len(s) : s[k].id = id /\ \A j \in 1..(k - 1) : s[j].id # id]
    ELSE NullAgent

\* addToLog that puts the new entry first.
addToLogPrepend(w, type, tag, arg, agent) ==
    [w EXCEPT !.gameLog = <<[type |-> type, tag |-> tag, arg |-> arg, agent |-> agent]>> \o @]

\* setGameLog((prev) => [...prev, entry])
addToLog(w, type, tag, arg, agent) ==
    [w EXCEPT !.gameLog = Append(@, [type |-> type, tag |-> tag, arg |-> arg, agent |-> agent])]

initializeAgents(count, levels) ==
    [k \in 1..count |->
        [id |-> k - 1, alive |-> TRUE, isImpostor |-> FALSE, suspicionLevel |-> levels[k]]]

\* The values Math.random() * 0.3 may give a roster of `count` agents: all 0,
\* or one agent at HotLevel.
ZeroLevels(count) == [k \in 1..count |-> 0]
LevelChoices(count) ==
    {ZeroLevels(count)} \cup
    {[k \in 1..count |-> IF k = h THEN HotLevel ELSE 0] : h \in 1..count}

\* ------------------------------------------------------ SuspicionModel
\* A statement is what the scoring reads in it: whether it holds one of the
\* accusation keywords, and the ids of the agents whose names it holds.
Neutral == [keyword |-> FALSE, mentions |-> {}]

suspicionChange(speakingAgent, agent, message, jitter) ==
    LET base == IF agent.id \in message.mentions \/ message.keyword THEN AccuseDelta ELSE 0
        strategic == IF speakingAgent.isImpostor /\ base > 0 THEN base + ImpostorBonus ELSE base
    IN strategic + jitter

\* clampSuspicion without its upper bound.
clampSuspicionLowerOnly(x) == Max(0, x)

clampSuspicion(x) == Max(0, Min(MaxSuspicion, x))

\* scoreAgent without the test that skips the speaker.
scoreAgentAlsoSpeaker(speakingAgent, agent, message, jitter) ==
    [agent EXCEPT !.suspicionLevel =
        clampSuspicion(agent.suspicionLevel + suspicionChange(speakingAgent, agent, message, jitter))]

scoreAgent(speakingAgent, agent, message, jitter) ==
    IF agent.id = speakingAgent.id THEN agent
    ELSE [agent EXCEPT !.suspicionLevel =
            clampSuspicion(agent.suspicionLevel + suspicionChange(speakingAgent, agent, message, jitter))]

\* setAgents((prevAgents) => prevAgents.map(...)); jit[k] is the random draw for
\* the k-th element.  Reading agent.id of a null element throws in the updater.
updateSuspicionLevels(w, speakingAgent, message, jit) ==
    IF HasNull(w.agents) THEN [w EXCEPT !.crashed = TRUE]
    ELSE [w EXCEPT !.agents =
            [k \in 1..Len(w.agents) |-> scoreAgent(speakingAgent, w.agents[k], message, jit[k])]]

\* --------------------------------------------------------- VotingEngine
\* array.reduce(f) without an initial value: a left fold that starts from the
\* first element.
Reduce(s, Pick(_, _)) ==
    LET F[k \in 1..Len(s)] == IF k = 1 THEN s[1] ELSE Pick(F[k - 1], s[k])
    IN F[Len(s)]

lessSuspicious(prev, current) ==
    IF prev.suspicionLevel < current.suspicionLevel THEN prev ELSE current

\* moreSuspicious that keeps the earlier agent when the levels are equal.
moreSuspiciousKeepsFirst(prev, current) ==
    IF prev.suspicionLevel >= current.suspicionLevel THEN prev ELSE current

moreSuspicious(prev, current) ==
    IF prev.suspicionLevel > current.suspicionLevel THEN prev ELSE current

\* moreVotes that takes the later entry when the counts are equal.
moreVotesKeepsLast(max, current) == IF current[2] >= max[2] THEN current ELSE max

moreVotes(max, current) == IF current[2] > max[2] THEN current ELSE max

IsAlive(a) == a.alive

\* The target of one voter, for a voter with at least one other living agent.
voteTarget(voter, aliveAgents) ==
    LET NotVoter(a) == a.id # voter.id
        NotImpostor(a) == ~a.isImpostor
        otherAgents == SeqFilter(aliveAgents, NotVoter)
        crewmates == SeqFilter(otherAgents, NotImpostor)
    IN IF voter.isImpostor
       THEN IF Len(crewmates) > 0 THEN Reduce(crewmates, lessSuspicious) ELSE otherAgents[1]
       ELSE Reduce(otherAgents, moreSuspicious)

\* Object.entries(votes).filter(count > 0): integer keys come in ascending
\* order; votes[k] counts the votes for id k - 1.
voteEntries(votes) ==
    LET Voted(e) == e[2] > 0
    IN SeqFilter([k \in 1..Len(votes) |-> <<k - 1, votes[k]>>], Voted)

\* eliminate that flips the alive flag of the agent voted out.
eliminateFlips(w, votedOutId) ==
    IF HasNull(w.agents) THEN [w EXCEPT !.crashed = TRUE]
    ELSE [w EXCEPT !.agents =
            [k \in 1..Len(w.agents) |->
                IF w.agents[k].id = votedOutId
                THEN [w.agents[k] EXCEPT !.alive = ~@] ELSE w.agents[k]]]

\* setAgents((prevAgents) => prevAgents.map(... alive: false ...))
eliminate(w, votedOutId) ==
    IF HasNull(w.agents) THEN [w EXCEPT !.crashed = TRUE]
    ELSE [w EXCEPT !.agents =
            [k \in 1..Len(w.agents) |->
                IF w.agents[k].id = votedOutId
                THEN [w.agents[k] EXCEPT !.alive = FALSE] ELSE w.agents[k]]]

\* ------------------------------------------------------- GameController
payoutAmount(bet) == (bet * PayoutTenths) \div 10

\* endGame that transfers winnings whatever the result.
endGamePaysAlways(w, t, playerWins, message) ==
    LET lp == w.loopTasks[t]
        w1 == addToLog([w EXCEPT !.gameRunningRef = FALSE,
                                 !.isGameRunning = FALSE,
                                 !.gameState = "finished"],
                       "system", message, NULL, NULL)
    IN [w1 EXCEPT !.transfers = Append(@, [kind |-> "payout", amount |-> payoutAmount(lp.betAmount)]),
                  !.loopTasks[t] = [lp EXCEPT !.pc = "payout"]]

endGame(w, t, playerWins, message) ==
    LET lp == w.loopTasks[t]
        w1 == addToLog([w EXCEPT !.gameRunningRef = FALSE,
                                 !.isGameRunning = FALSE,
                                 !.gameState = "finished"],
                       "system", message, NULL, NULL)
    IN IF playerWins
       THEN [w1 EXCEPT !.transfers = Append(@, [kind |-> "payout", amount |-> payoutAmount(lp.betAmount)]),
                       !.loopTasks[t] = [lp EXCEPT !.pc = "payout"]]
       ELSE [addToLog(w1, "system", "lostBet", lp.betAmount, NULL)
                EXCEPT !.loopTasks[t] = IdleLoop]

\* ----------------------------------------------------------- RoundEngine
CountWhere(s, Test(_)) == Len(SeqFilter(s, Test))

\* afterVoting whose win branches lack their return: the loop goes on to the
\* delay between rounds.
afterVotingNoReturn(w, t) ==
    LET lp == w.loopTasks[t]
        Crew(a) == a.alive /\ ~a.isImpostor
        Imp(a) == a.alive /\ a.isImpostor
        aliveCrewmates == CountWhere(lp.agents, Crew)
        aliveImpostors == CountWhere(lp.agents, Imp)
        w1 == IF aliveImpostors = 0 THEN endGame(w, t, TRUE, "crewWins")
              ELSE IF aliveImpostors >= aliveCrewmates THEN endGame(w, t, FALSE, "impostorWins")
              ELSE w
    IN [w1 EXCEPT !.loopTasks[t] = [lp EXCEPT !.pc = "roundDelay"]]

\* The win check after conductVoting, then the delay between rounds.
afterVoting(w, t) ==
    LET lp == w.loopTasks[t]
        Crew(a) == a.alive /\ ~a.isImpostor
        Imp(a) == a.alive /\ a.isImpostor
        aliveCrewmates == CountWhere(lp.agents, Crew)
        aliveImpostors == CountWhere(lp.agents, Imp)
    IN IF aliveImpostors = 0 THEN endGame(w, t, TRUE, "crewWins")
       ELSE IF aliveImpostors >= aliveCrewmates THEN endGame(w, t, FALSE, "impostorWins")
       ELSE [w EXCEPT !.loopTasks[t].pc = "roundDelay"]

\* The end of conductVoting, after the last voter.
resolveVotes(w, t) ==
    LET lp == w.loopTasks[t]
        entries == voteEntries(lp.votes)
    IN IF Len(entries) = 0
       THEN afterVoting(addToLog(w, "system", "noOneVotedOut", NULL, NULL), t)
       ELSE LET top == Reduce(entries, moreVotes)
                votedOutAgent == FindAgent(lp.agents, top[1])
            IN IF ~IsNull(votedOutAgent) /\ top[2] > 0
               THEN afterVoting(
                        addToLog(eliminate(w, top[1]), "system",
                                 IF votedOutAgent.isImpostor THEN "votedOutImpostor" ELSE "votedOutCrew",
                                 top[1], NULL), t)
               ELSE afterVoting(w, t)

\* conductVoting's loop from the v-th living agent on, up to its next await.
RECURSIVE castVote(_, _, _)
castVote(w, t, v) ==
    LET lp == w.loopTasks[t]
        aliveAgents == SeqFilter(lp.agents, IsAlive)
    IN IF v > Len(aliveAgents) THEN resolveVotes(w, t)
       ELSE IF ~w.gameRunningRef THEN afterVoting(w, t)
       ELSE IF Len(aliveAgents) = 1 THEN castVote(w, t, v + 1)
       ELSE LET voter == aliveAgents[v]
                target == voteTarget(voter, aliveAgents)
            IN addToLog([w EXCEPT !.loopTasks[t].votes[target.id + 1] = @ + 1,
                                  !.loopTasks[t].voter = v,
                                  !.loopTasks[t].pc = "voteDelay"],
                        "vote", "votesFor", target.id, voter.id)

conductVoting(w, t) ==
    LET lp == w.loopTasks[t]
        w1 == addToLog(w, "system", "votingPhase", NULL, NULL)
    IN castVote([w1 EXCEPT !.loopTasks[t].votes =
                    [k \in 1..Len(lp.agents) |-> 0]], t, 1)

\* afterStatements that holds a vote in every round.
afterStatementsAlwaysVotes(w, t) == conductVoting(w, t)

\* After the statements of a round.
afterStatements(w, t) ==
    IF w.loopTasks[t].currentRound % VoteEvery = 0
    THEN conductVoting(w, t)
    ELSE [w EXCEPT !.loopTasks[t].pc = "roundDelay"]

\* The statement loop at its i-th agent, up to the call of simpleChat.
statementTurn(w, t, i) ==
    LET lp == w.loopTasks[t]
        currentAgents == SeqFilter(lp.agents, IsAlive)
    IN IF i > Len(currentAgents) THEN afterStatements(w, t)
       ELSE IF ~w.gameRunningRef THEN [w EXCEPT !.loopTasks[t] = IdleLoop]
       ELSE [w EXCEPT !.loopTasks[t].i = i, !.loopTasks[t].pc = "chat"]

\* enterRound that leaves the loop after the last round without a call of endGame.
enterRoundNoVerdict(w, t, r) ==
    IF r > maxRounds THEN [w EXCEPT !.loopTasks[t] = IdleLoop]
    ELSE IF ~w.gameRunningRef THEN endGame(w, t, FALSE, "impostorSurvives")
    ELSE statementTurn(
            addToLog([w EXCEPT !.round = r, !.loopTasks[t].currentRound = r],
                     "system", "round", r, NULL), t, 1)

\* The head of the round loop for round r.
enterRound(w, t, r) ==
    IF r > maxRounds THEN endGame(w, t, FALSE, "impostorSurvives")
    ELSE IF ~w.gameRunningRef THEN endGame(w, t, FALSE, "impostorSurvives")
    ELSE statementTurn(
            addToLog([w EXCEPT !.round = r, !.loopTasks[t].currentRound = r],
                     "system", "round", r, NULL), t, 1)

\* -------------------------------------------------------------- actions
\* The component after its first render, or after a choice in the agent count
\* select.  budget: the departures from the plain run that are left; racing:
\* whether the run may click "Start" again while a startGame call is in flight
\* (after a click on Stop); stoppedAt[t]: where loop t stood when Stop was
\* clicked (a history variable).
InitWith(departures, mayRace, placeholders) ==
    /\ budget = departures
    /\ racing = mayRace
    /\ stoppedAt = [t \in LoopIds |-> "none"]
    /\ agents = [k \in 1..placeholders |-> NullAgent]
    /\ gameState = "setup"
    /\ betAmount = MinBet
    /\ userBalance = NULL
    /\ selectedImpostor = NULL
    /\ gameLog = <<>>
    /\ round = 0
    /\ error = "none"
    /\ isGameRunning = FALSE
    /\ gameRunningRef = FALSE
    /\ startTasks = [k \in StartIds |-> IdleStart]
    /\ loopTasks = [t \in LoopIds |-> IdleLoop]
    /\ transfers = <<>>
    /\ loopStarts = 0
    /\ crashed = FALSE

Init == InitWith(MaxPerturb, FALSE, 0)

\* The component after MinAgents was chosen in the agent count select.
InitRace == InitWith(0, TRUE, MinAgents)

\* The wallet address is typed in and fetchBalance answers.
FetchBalance(b) ==
    /\ ~crashed
    /\ userBalance = NULL
    /\ Commit([World EXCEPT !.userBalance = b])

\* The bet input of the setup card.
SetBetAmount(b) ==
    /\ ~crashed
    /\ gameState = "setup"
    /\ b # betAmount
    /\ budget > 0
    /\ Commit([World EXCEPT !.betAmount = b, !.budget = @ - 1])

\* The agent count select of the setup card: setAgents(Array(n).fill(null)).
SelectAgentCount(n) ==
    /\ ~crashed
    /\ gameState = "setup"
    /\ Len(agents) # n
    /\ budget > 0
    /\ Commit([World EXCEPT !.agents = [k \in 1..n |-> NullAgent], !.budget = @ - 1])

FreeStart(k) ==
    /\ startTasks[k].pc = "idle"
    /\ \A j \in 1..(k - 1) : startTasks[j].pc # "idle"

FreeLoop(t) ==
    /\ loopTasks[t].pc = "idle"
    /\ \A j \in 1..(t - 1) : loopTasks[j].pc # "idle"

EscrowCalls == CountWhere(transfers, LAMBDA c : c.kind = "escrow")

StartsInFlight == Cardinality({k \in StartIds : startTasks[k].pc # "idle"})

agentCount(len) == Max(MinAgents, Min(MaxAgents, IF len = 0 THEN DefaultAgents ELSE len))

\* startGame up to its await of transferSTX.
StartGame(k) ==
    /\ ~crashed
    /\ gameState = "setup"
    /\ userBalance # NULL
    /\ betAmount >= MinBet
    /\ betAmount <= userBalance
    /\ ~isGameRunning
    /\ FreeStart(k)
    /\ EscrowCalls < MaxEscrowCalls
    /\ StartsInFlight = 0 \/ racing
    /\ Commit([World EXCEPT
            !.error = "none",
            !.isGameRunning = TRUE,
            !.transfers = Append(@, [kind |-> "escrow", amount |-> betAmount]),
            !.startTasks[k] = [pc |-> "escrow", betAmount |-> betAmount,
                               count |-> agentCount(Len(agents))]])

\* EscrowReturns whose failure branches lack their return.
EscrowReturnsFallsThrough(k, res) ==
    /\ ~crashed
    /\ startTasks[k].pc = "escrow"
    /\ LET st == startTasks[k]
       IN IF res = "ok"
          THEN Commit([addToLog(World, "transaction", "betTransferred", st.betAmount, NULL)
                        EXCEPT !.userBalance = IF @ # NULL THEN @ - st.betAmount ELSE @,
                               !.startTasks[k].pc = "init"])
          ELSE Commit([World EXCEPT
                        !.error = IF res = "fail" THEN "transferBetFailed" ELSE "transferBetThrew",
                        !.isGameRunning = FALSE,
                        !.startTasks[k].pc = "init"])

\* transferSTX of the bet settles: startGame up to the awaits of createAgent.
EscrowReturns(k, res) ==
    /\ ~crashed
    /\ startTasks[k].pc = "escrow"
    /\ LET st == startTasks[k]
       IN IF res = "ok"
          THEN Commit([addToLog(World, "transaction", "betTransferred", st.betAmount, NULL)
                        EXCEPT !.userBalance = IF @ # NULL THEN @ - st.betAmount ELSE @,
                               !.startTasks[k].pc = "init"])
          ELSE Commit([World EXCEPT
                        !.error = IF res = "fail" THEN "transferBetFailed" ELSE "transferBetThrew",
                        !.isGameRunning = FALSE,
                        !.startTasks[k] = IdleStart])

\* The agents are created (or replaced by mock agents): the end of startGame.
InitAgentsDone(k, levels) ==
    /\ ~crashed
    /\ startTasks[k].pc = "init"
    /\ levels = ZeroLevels(startTasks[k].count) \/ budget > 0
    /\ Commit([World EXCEPT
            !.budget = IF levels = ZeroLevels(startTasks[k].count) THEN @ ELSE @ - 1,
            !.agents = initializeAgents(startTasks[k].count, levels),
            !.gameState = "selectImpostor",
            !.isGameRunning = FALSE,
            !.startTasks[k] = IdleStart])

\* A click on an agent card of the selection screen.
SelectImpostor(agentId) ==
    /\ ~crashed
    /\ gameState = "selectImpostor"
    /\ \E k \in 1..Len(agents) : agents[k].id = agentId
    /\ Commit([World EXCEPT
            !.selectedImpostor = agentId,
            !.agents = [k \in 1..Len(agents) |->
                            [agents[k] EXCEPT !.isImpostor = (agents[k].id = agentId)]]])

\* startAmongUsGame and runGameLoop up to its first await.
StartAmongUsGame(t, cap) ==
    /\ ~crashed
    /\ gameState = "selectImpostor"
    /\ ~isGameRunning
    /\ selectedImpostor # NULL
    /\ FreeLoop(t)
    /\ loopStarts < cap
    /\ LET w1 == [World EXCEPT !.error = "none", !.gameState = "playing",
                               !.loopStarts = @ + 1, !.stoppedAt[t] = "none",
                               !.isGameRunning = TRUE, !.gameRunningRef = TRUE]
           w2 == addToLog(w1, "system", "gameStarted", FindAgent(agents, selectedImpostor).id, NULL)
           w3 == [w2 EXCEPT !.loopTasks[t] =
                    [IdleLoop EXCEPT !.agents = agents, !.betAmount = betAmount]]
       IN Commit(enterRound(w3, t, 1))

Speaker(lp) == SeqFilter(lp.agents, IsAlive)[lp.i]

Quiet(message, jit) == message = Neutral /\ \A k \in DOMAIN jit : jit[k] = 0

\* simpleChat resolves with a statement.
ChatResponds(t, message, jit) ==
    /\ ~crashed
    /\ loopTasks[t].pc = "chat"
    /\ Quiet(message, jit) \/ budget > 0
    /\ LET agent == Speaker(loopTasks[t])
           w1 == addToLog(World, "agent", "response", NULL, agent.id)
           w2 == updateSuspicionLevels(w1, agent, message, jit)
       IN Commit([w2 EXCEPT !.loopTasks[t].pc = "delay",
                            !.budget = IF Quiet(message, jit) THEN @ ELSE @ - 1])

\* ChatFails whose catch also scores the filler line as an accusation.
ChatFailsScores(t) ==
    /\ ~crashed
    /\ loopTasks[t].pc = "chat"
    /\ budget > 0
    /\ LET agent == Speaker(loopTasks[t])
           w1 == addToLog([World EXCEPT !.budget = @ - 1], "agent", "filler", NULL, agent.id)
           w2 == updateSuspicionLevels(w1, agent, [keyword |-> TRUE, mentions |-> {}],
                                       [k \in 1..MaxAgents |-> 0])
       IN Commit(statementTurn(w2, t, loopTasks[t].i + 1))

\* ChatFails whose catch leaves runGameLoop.
ChatFailsEndsLoop(t) ==
    /\ ~crashed
    /\ loopTasks[t].pc = "chat"
    /\ budget > 0
    /\ LET agent == Speaker(loopTasks[t])
           w1 == addToLog([World EXCEPT !.budget = @ - 1], "agent", "filler", NULL, agent.id)
       IN Commit([w1 EXCEPT !.loopTasks[t] = IdleLoop])

\* simpleChat rejects (or its answer is no string): the catch of the turn.
ChatFails(t) ==
    /\ ~crashed
    /\ loopTasks[t].pc = "chat"
    /\ budget > 0
    /\ LET agent == Speaker(loopTasks[t])
           w1 == addToLog([World EXCEPT !.budget = @ - 1], "agent", "filler", NULL, agent.id)
       IN Commit(statementTurn(w1, t, loopTasks[t].i + 1))

\* The 2 s delay after a statement ends.
StatementDelayDone(t) ==
    /\ ~crashed
    /\ loopTasks[t].pc = "delay"
    /\ Commit(statementTurn(World, t, loopTasks[t].i + 1))

\* The 1.5 s delay after a vote ends.
VoteDelayDone(t) ==
    /\ ~crashed
    /\ loopTasks[t].pc = "voteDelay"
    /\ Commit(castVote(World, t, loopTasks[t].voter + 1))

\* The 3 s delay between rounds ends.
RoundDelayDone(t) ==
    /\ ~crashed
    /\ loopTasks[t].pc = "roundDelay"
    /\ Commit(enterRound(World, t, loopTasks[t].currentRound + 1))

\* PayoutReturns that calls transferSTX again when the transfer failed.
PayoutReturnsRetries(t, res) ==
    /\ ~crashed
    /\ loopTasks[t].pc = "payout"
    /\ LET winnings == payoutAmount(loopTasks[t].betAmount)
       IN IF res = "ok"
          THEN Commit([addToLog(World, "transaction", "winnings", winnings, NULL)
                        EXCEPT !.userBalance = IF @ # NULL THEN @ + winnings ELSE @,
                               !.loopTasks[t] = IdleLoop])
          ELSE Commit([World EXCEPT
                        !.error = IF res = "fail" THEN "transferWinningsFailed"
                                                  ELSE "transferWinningsThrew",
                        !.transfers = Append(@, [kind |-> "payout", amount |-> winnings])])

\* transferSTX of the winnings settles: the end of endGame.
PayoutReturns(t, res) ==
    /\ ~crashed
    /\ loopTasks[t].pc = "payout"
    /\ LET winnings == payoutAmount(loopTasks[t].betAmount)
       IN IF res = "ok"
          THEN Commit([addToLog(World, "transaction", "winnings", winnings, NULL)
                        EXCEPT !.userBalance = IF @ # NULL THEN @ + winnings ELSE @,
                               !.loopTasks[t] = IdleLoop])
          ELSE Commit([World EXCEPT
                        !.error = IF res = "fail" THEN "transferWinningsFailed"
                                                  ELSE "transferWinningsThrew",
                        !.loopTasks[t] = IdleLoop])

\* The Stop Game button, shown while isGameRunning.
stopGame ==
    /\ ~crashed
    /\ isGameRunning
    /\ Commit(addToLog([World EXCEPT !.gameRunningRef = FALSE, !.isGameRunning = FALSE,
                                       !.stoppedAt = [t \in LoopIds |-> loopTasks[t].pc]],
                       "system", "stoppedByUser", NULL, NULL))

\* resetGame without its setGameLog([]).
resetGameKeepsLog ==
    /\ ~crashed
    /\ gameState = "finished"
    /\ Commit([World EXCEPT
            !.gameRunningRef = FALSE, !.isGameRunning = FALSE, !.gameState = "setup",
            !.agents = <<>>, !.selectedImpostor = NULL,
            !.round = 0, !.error = "none"])

\* The Play Again button, shown in the finished phase.
resetGame ==
    /\ ~crashed
    /\ gameState = "finished"
    /\ Commit([World EXCEPT
            !.gameRunningRef = FALSE, !.isGameRunning = FALSE, !.gameState = "setup",
            !.agents = <<>>, !.selectedImpostor = NULL, !.gameLog = <<>>,
            !.round = 0, !.error = "none"])

MentionIds == {0}
Messages ==
    {Neutral, [keyword |-> TRUE, mentions |-> {}]}
        \cup {[keyword |-> FALSE, mentions |-> {id}] : id \in MentionIds}

\* One random draw for all listeners of a statement.
UniformJitter(j) == [k \in 1..MaxAgents |-> j]

Next ==
    \/ \E b \in BalanceChoices : FetchBalance(b)
    \/ \E b \in BetChoices : SetBetAmount(b)
    \/ \E n \in AgentCountOptions : SelectAgentCount(n)
    \/ \E k \in StartIds : StartGame(k)
    \/ \E k \in StartIds, res \in TransferResults : EscrowReturns(k, res)
    \/ \E k \in StartIds : \E levels \in LevelChoices(startTasks[k].count) : InitAgentsDone(k, levels)
    \/ \E id \in 0..(MaxAgents - 1) : SelectImpostor(id)
    \/ \E t \in LoopIds : StartAmongUsGame(t, MaxLoopStarts)
    \/ \E t \in LoopIds, m \in Messages, j \in JitterChoices : ChatResponds(t, m, UniformJitter(j))
    \/ \E t \in LoopIds : ChatFails(t)
    \/ \E t \in LoopIds : StatementDelayDone(t)
    \/ \E t \in LoopIds : VoteDelayDone(t)
    \/ \E t \in LoopIds : RoundDelayDone(t)
    \/ stopGame
    \/ resetGame

\* The runs with at most one startGame call in flight.  No such run reaches the
\* await of the payout, so PayoutReturns is an action of NextRace only.
Spec == Init /\ [][Next]_vars

\* The runs with two startGame calls in flight, otherwise plain.
NextRace ==
    \/ \E b \in BalanceChoices : FetchBalance(b)
    \/ \E k \in StartIds : StartGame(k)
    \/ \E k \in StartIds, res \in TransferResults : EscrowReturns(k, res)
    \/ \E k \in StartIds : InitAgentsDone(k, ZeroLevels(startTasks[k].count))
    \/ \E id \in 0..(MaxAgents - 1) : SelectImpostor(id)
    \/ \E t \in LoopIds : StartAmongUsGame(t, MaxLoopStarts)
    \/ \E t \in LoopIds : ChatResponds(t, Neutral, UniformJitter(0))
    \/ \E t \in LoopIds : StatementDelayDone(t)
    \/ \E t \in LoopIds : VoteDelayDone(t)
    \/ \E t \in LoopIds : RoundDelayDone(t)
    \/ \E t \in LoopIds, res \in TransferResults : PayoutReturns(t, res)
    \/ stopGame
    \/ resetGame

SpecRace == InitRace /\ [][NextRace]_vars

\* The runs that exercise the scoring: one game of MinAgents agents in which any
\* statement may name agent 0 and the random draw for agent 0 is free (the
\* other draws are 0), every dialogue call succeeds, nobody clicks Stop or Play
\* Again.
InitScore == InitWith(ScoreBudget, FALSE, MinAgents)

ScoreMessages == {Neutral, [keyword |-> FALSE, mentions |-> {0}]}
ScoreLevels(count) == {[k \in 1..count |-> IF k = 1 THEN l ELSE 0] : l \in {0, HotLevel}}
JitterOfFirst(j) == [k \in 1..MaxAgents |-> IF k = 1 THEN j ELSE 0]

NextScore ==
    \/ \E b \in BalanceChoices : FetchBalance(b)
    \/ \E k \in StartIds : StartGame(k)
    \/ \E k \in StartIds : EscrowReturns(k, "ok")
    \/ \E k \in StartIds : \E levels \in ScoreLevels(startTasks[k].count) : InitAgentsDone(k, levels)
    \/ \E id \in 0..(MaxAgents - 1) : SelectImpostor(id)
    \/ \E t \in LoopIds : StartAmongUsGame(t, MaxLoopStarts)
    \/ \E t \in LoopIds, m \in ScoreMessages, j \in JitterChoices : ChatResponds(t, m, JitterOfFirst(j))
    \/ \E t \in LoopIds : StatementDelayDone(t)
    \/ \E t \in LoopIds : VoteDelayDone(t)
    \/ \E t \in LoopIds : RoundDelayDone(t)

SpecScore == InitScore /\ [][NextScore]_vars

\* The runs in which a second startGame call, started after a click on Stop,
\* completes while a game is played, and "Start Among Us Game" is clicked again:
\* two runGameLoop calls in flight.  Every transfer and dialogue call succeeds,
\* Stop is clicked only while startGame is in flight and no game has been
\* started; startGame completes, and
\* the selection screen is clicked, only while no loop is in the statements of a
\* round; the card clicked is that of agent 0; the awaits of a loop settle only
\* while no younger loop plays.
InitOverlap == InitWith(0, TRUE, MinAgents)

BetweenStatements == \A t \in LoopIds : loopTasks[t].pc \notin {"chat", "delay"}

NoYoungerPlays(t) ==
    \A j \in LoopIds : j > t => loopTasks[j].pc \in {"idle", "payout"}

NextOverlap ==
    \/ \E b \in BalanceChoices : FetchBalance(b)
    \/ \E k \in StartIds : StartGame(k)
    \/ \E k \in StartIds : EscrowReturns(k, "ok")
    \/ \E k \in StartIds : BetweenStatements /\ InitAgentsDone(k, ZeroLevels(startTasks[k].count))
    \/ BetweenStatements /\ SelectImpostor(0)
    \/ \E t \in LoopIds : BetweenStatements /\ StartAmongUsGame(t, MaxOverlapStarts)
    \/ \E t \in LoopIds : NoYoungerPlays(t) /\ ChatResponds(t, Neutral, UniformJitter(0))
    \/ \E t \in LoopIds : NoYoungerPlays(t) /\ StatementDelayDone(t)
    \/ \E t \in LoopIds : NoYoungerPlays(t) /\ VoteDelayDone(t)
    \/ \E t \in LoopIds : NoYoungerPlays(t) /\ RoundDelayDone(t)
    \/ \E t \in LoopIds : PayoutReturns(t, "ok")
    \/ StartsInFlight > 0 /\ loopStarts = 0 /\ stopGame

SpecOverlap == InitOverlap /\ [][NextOverlap]_vars

\* ---------------------------------------------------------------- claims
IsPayout(c) == c.kind = "payout"
IsEscrow(c) == c.kind = "escrow"
PayoutCount == Cardinality({k \in 1..Len(transfers) : IsPayout(transfers[k])})
EscrowedCalls == SeqFilter(transfers, IsEscrow)

IsPrefix(s, u) == Len(s) <= Len(u) /\ \A k \in 1..Len(s) : u[k] = s[k]

\* The entries a step appends to the log (none when the step clears the log).
Appended(old, new) ==
    IF IsPrefix(old, new) THEN SubSeq(new, Len(old) + 1, Len(new)) ELSE <<>>

HasTag(s, tag) == \E k \in 1..Len(s) : s[k].tag = tag

GameOverTags == {"crewWins", "impostorWins", "impostorSurvives"}
VerdictTags == GameOverTags \cup {"lostBet"}

LivingImpostors(s) == Cardinality({k \in 1..Len(s) : s[k].alive /\ s[k].isImpostor})
LivingCrew(s) == Cardinality({k \in 1..Len(s) : s[k].alive /\ ~s[k].isImpostor})
HasRoster(s) == \E k \in 1..Len(s) : ~IsNull(s[k])

\* Loop t comes back from the delay after the vote of its last voter: the step
\* tallies the votes and eliminates.
VotingResolves(t) ==
    /\ loopTasks[t].pc = "voteDelay"
    /\ loopTasks[t].voter = Len(SeqFilter(loopTasks[t].agents, IsAlive))
    /\ loopTasks'[t] # loopTasks[t]

\* C1: whenever a voting phase leaves no living impostor, the game ends as a
\* crew win: the phase becomes finished and exactly one payout call is made, of
\* 1.8 times the wager.
C1_ImpostorVotedOutIsCrewWin ==
    [][\A t \in LoopIds :
        (VotingResolves(t) /\ HasRoster(agents') /\ LivingImpostors(agents') = 0)
            => /\ gameState' = "finished"
               /\ HasTag(Appended(gameLog, gameLog'), "crewWins")
               /\ \E amount \in 0..(2 * EscrowedCalls[Len(EscrowedCalls)].amount) :
                    /\ amount * 10 = EscrowedCalls[Len(EscrowedCalls)].amount * PayoutTenths
                    /\ transfers' = Append(transfers, [kind |-> "payout", amount |-> amount])]_vars

\* The loop of a voting phase goes on: its last voter has voted, or it saw the
\* click on Stop before a voter.
VotingEnds(t) ==
    /\ loopTasks[t].pc = "voteDelay"
    /\ loopTasks'[t] # loopTasks[t]
    /\ loopTasks'[t].pc # "voteDelay"

\* C2: whenever a voting phase ends with at least as many living impostors as
\* living crew, the game ends at once as an impostor win: the phase becomes
\* finished, the result and the lost wager are logged, no payout call is made.
C2_ParityAfterVotingIsImpostorWin ==
    [][\A t \in LoopIds :
        (VotingEnds(t) /\ HasRoster(agents') /\ LivingImpostors(agents') > 0
            /\ LivingImpostors(agents') >= LivingCrew(agents'))
            => /\ gameState' = "finished"
               /\ HasTag(Appended(gameLog, gameLog'), "impostorWins")
               /\ HasTag(Appended(gameLog, gameLog'), "lostBet")
               /\ PayoutCount' = PayoutCount]_vars

\* C3: when Stop is clicked while the agents of a round make their statements,
\* the loop ends with the phase finished, the cancellation in the log, no vote
\* held after it and no payout call.
C3_CancelDuringStatementsFinishes ==
    \A t \in LoopIds :
        (stoppedAt[t] \in {"chat", "delay"} /\ loopTasks[t].pc = "idle" /\ loopStarts > 0
            /\ HasTag(gameLog, "gameStarted"))
            => /\ gameState = "finished"
               /\ HasTag(gameLog, "stoppedByUser")
               /\ \A k \in 1..Len(gameLog) : \A j \in (k + 1)..Len(gameLog) :
                    gameLog[k].tag = "stoppedByUser" /\ HasTag(SubSeq(gameLog, 1, k), "gameStarted")
                        => gameLog[j].tag \notin {"votingPhase", "votesFor"}
               /\ PayoutCount = 0

\* C4: a cancellation during playing never declares a winner: no game-over,
\* crew-wins, impostor-wins or wager-lost entry follows the cancellation entry.
C4_CancelDeclaresNoWinner ==
    \A k \in 1..Len(gameLog) : \A j \in (k + 1)..Len(gameLog) :
        (gameLog[k].tag = "stoppedByUser" /\ HasTag(SubSeq(gameLog, 1, k), "gameStarted"))
            => gameLog[j].tag \notin VerdictTags

\* C5: the phase only moves setup -> selectImpostor -> playing -> finished, one
\* step at a time, and finished is left only for setup (by a reset).
PhaseSteps ==
    {<<"setup", "selectImpostor">>, <<"selectImpostor", "playing">>,
     <<"playing", "finished">>, <<"finished", "setup">>}

C5_PhaseOrder ==
    [][gameState' # gameState => <<gameState, gameState'>> \in PhaseSteps]_vars

\* C6: a game makes at most one payout call, and only in the step that ends it
\* as a crew win; a step that ends it as an impostor win (by parity or by
\* surviving the rounds) logs the lost wager right after the result and makes no
\* payout call.
C6_PayoutOnlyOnCrewWin ==
    [][(transfers' # transfers \/ gameLog' # gameLog) =>
        LET new == Appended(gameLog, gameLog')
        IN /\ PayoutCount' \in {PayoutCount, PayoutCount + 1}
           /\ PayoutCount' <= loopStarts'
           /\ PayoutCount' = PayoutCount + 1
                 => HasTag(new, "crewWins") /\ gameState' = "finished"
           /\ HasTag(new, "crewWins") => PayoutCount' = PayoutCount + 1
           /\ \A k \in 1..Len(new) :
                 new[k].tag \in {"impostorWins", "impostorSurvives"}
                     => /\ PayoutCount' = PayoutCount
                        /\ k < Len(new)
                        /\ new[k + 1].tag = "lostBet"
                        /\ gameState' = "finished"]_vars

C6_Witness ==
    /\ PayoutCount = 1
    /\ gameState = "finished"
    /\ HasTag(gameLog, "crewWins")

EscrowErrors == {"transferBetFailed", "transferBetThrew"}

\* The transfer of the bet of start task k settles as a failure.
EscrowFails(k) ==
    /\ startTasks[k].pc = "escrow"
    /\ startTasks'[k] # startTasks[k]
    /\ error' \in EscrowErrors

DialogueFails(t) ==
    /\ loopTasks[t].pc = "chat"
    /\ loopTasks'[t] # loopTasks[t]
    /\ loopTasks'[t].pc # "delay"

\* C8: when the dialogue call of a turn fails, the filler line is logged as the
\* statement of that agent, no suspicion level changes, and (unless Stop was
\* clicked) the round goes on with the next agent of its snapshot.
C8_DialogueFailureIsContained ==
    [][\A t \in LoopIds :
        DialogueFails(t)
            => LET lp == loopTasks[t]
                   new == Appended(gameLog, gameLog')
               IN /\ Len(new) >= 1
                  /\ new[1] = [type |-> "agent", tag |-> "filler", arg |-> NULL,
                               agent |-> Speaker(lp).id]
                  /\ agents' = agents
                  /\ gameState' = gameState
                  /\ (lp.i < Len(SeqFilter(lp.agents, IsAlive)) /\ gameRunningRef)
                        => /\ loopTasks'[t] = [lp EXCEPT !.i = lp.i + 1]
                           /\ Len(new) = 1]_vars

C8_Witness ==
    \E t \in LoopIds :
        /\ loopTasks[t].pc = "chat"
        /\ loopTasks[t].i >= 2
        /\ gameLog[Len(gameLog)].tag = "filler"
        /\ gameLog[Len(gameLog)].agent = SeqFilter(loopTasks[t].agents, IsAlive)[loopTasks[t].i - 1].id

PayoutErrors == {"transferWinningsFailed", "transferWinningsThrew"}

\* The payout of loop t settles as a failure.
PayoutFails(t) ==
    /\ loopTasks[t].pc = "payout"
    /\ loopTasks'[t] # loopTasks[t] \/ PayoutCount' # PayoutCount
    /\ error' \in PayoutErrors
    /\ error' # error \/ gameLog' = gameLog

\* C9: when the payout fails, the error is shown, the phase and the log (with
\* the game result in it) stay as they are, and no further payout call is made.
C9_PayoutFailureKeepsResult ==
    [][\A t \in LoopIds :
        PayoutFails(t)
            => /\ gameState' = gameState
               /\ gameLog' = gameLog
               /\ agents' = agents
               /\ PayoutCount' = PayoutCount
               /\ loopTasks'[t] = IdleLoop]_vars

C9_Witness ==
    /\ error \in PayoutErrors
    /\ gameState = "finished"
    /\ HasTag(gameLog, "crewWins")
    /\ PayoutCount = 1
    /\ \A t \in LoopIds : loopTasks[t].pc = "idle"

\* C10: every suspicion level stays within [0, 1] (0..MaxSuspicion steps) after
\* every scoring update, and is below 0.3 (InitSuspicionLimit) as long as no
\* statement was scored.
C10_SuspicionInRange ==
    /\ \A k \in 1..Len(agents) :
        agents[k].suspicionLevel >= 0 /\ agents[k].suspicionLevel <= MaxSuspicion
    /\ ~HasTag(gameLog, "response")
        => \A k \in 1..Len(agents) : agents[k].suspicionLevel < InitSuspicionLimit

C10_Witness ==
    /\ HasTag(gameLog, "response")
    /\ \E k \in 1..Len(agents) : agents[k].suspicionLevel = MaxSuspicion

Flagged(s) == {k \in 1..Len(s) : ~IsNull(s[k]) /\ s[k].isImpostor}

\* C11: in every state with phase playing or finished exactly one agent of the
\* roster has isImpostor = TRUE, and it is the agent that was picked
\* (selectedImpostor) when the game entered playing.
C11_ExactlyOneImpostor ==
    gameState \in {"playing", "finished"}
        => /\ Cardinality(Flagged(agents)) = 1
           /\ \A k \in Flagged(agents) : agents[k].id = selectedImpostor

\* A startGame call completes: setAgents(initializedAgents) begins a roster.
RosterInstalled ==
    \E k \in StartIds : startTasks[k].pc = "init" /\ startTasks'[k].pc = "idle"

C13_RoundSteps ==
    [][round' # round
        => \/ round' = round + 1 /\ round' <= maxRounds
           \/ round' = 0 /\ gameState = "finished" /\ gameState' = "setup"]_vars

\* The living agents of the roster loop lp plays on, in roster order.
LivingOf(lp) == SeqFilter(lp.agents, IsAlive)

\* The positions, among the living agents, of the agents voter v may vote for.
VoteCandidates(lp, v) ==
    LET alive == LivingOf(lp)
        others == {k \in 1..Len(alive) : alive[k].id # alive[v].id}
        crew == {k \in others : ~alive[k].isImpostor}
    IN IF alive[v].isImpostor /\ crew # {} THEN crew ELSE others

\* The candidates at the extreme voter v looks for: the lowest level for the
\* impostor, the highest for a crew member.
AtExtreme(lp, v) ==
    LET alive == LivingOf(lp)
        c == VoteCandidates(lp, v)
    IN {k \in c : \A j \in c :
            IF alive[v].isImpostor
            THEN alive[k].suspicionLevel <= alive[j].suspicionLevel
            ELSE alive[k].suspicionLevel >= alive[j].suspicionLevel}

SetMax(S) == CHOOSE x \in S : \A y \in S : y <= x
SetMin(S) == CHOOSE x \in S : \A y \in S : x <= y

\* Loop t casts the vote of its next voter.
VoteCast(t) ==
    /\ loopTasks'[t].pc = "voteDelay"
    /\ loopTasks[t].pc # "voteDelay" \/ loopTasks'[t].voter # loopTasks[t].voter

VoteEntry(voter, target) ==
    [type |-> "vote", tag |-> "votesFor", arg |-> target.id, agent |-> voter.id]

\* C14 (as the code has it): every vote goes to a candidate at the extreme the
\* voter looks for, and among candidates with the same level at that extreme to
\* the one that comes last in roster order.
C14_TieGoesToLaterAgent ==
    [][\A t \in LoopIds :
        VoteCast(t)
            => LET lp == loopTasks'[t]
                   alive == LivingOf(lp)
               IN gameLog'[Len(gameLog')]
                    = VoteEntry(alive[lp.voter], alive[SetMax(AtExtreme(lp, lp.voter))])]_vars

\* C14 (as stated): among candidates with the same level at the extreme the
\* voter looks for, the vote goes to the one that comes first in roster order.
C14_TieGoesToEarlierAgent ==
    [][\A t \in LoopIds :
        VoteCast(t)
            => LET lp == loopTasks'[t]
                   alive == LivingOf(lp)
               IN gameLog'[Len(gameLog')]
                    = VoteEntry(alive[lp.voter], alive[SetMin(AtExtreme(lp, lp.voter))])]_vars

C14_Witness ==
    \E t \in LoopIds :
        /\ loopTasks[t].pc = "voteDelay"
        /\ ~LivingOf(loopTasks[t])[loopTasks[t].voter].isImpostor
        /\ Cardinality(AtExtreme(loopTasks[t], loopTasks[t].voter)) >= 2
        /\ gameLog[Len(gameLog)].tag = "votesFor"

GameOverEntries(s) == {k \in 1..Len(s) : s[k].tag \in GameOverTags}

\* Loop t leaves the delay after round maxRounds of a game in which Stop was not
\* clicked and the impostor is alive.
LastRoundElapses(t) ==
    /\ loopTasks[t].pc = "roundDelay"
    /\ loopTasks[t].currentRound = maxRounds
    /\ loopTasks'[t] # loopTasks[t]
    /\ gameRunningRef
    /\ ~HasTag(gameLog, "stoppedByUser")
    /\ LivingImpostors(agents) = 1

\* C15: when all maxRounds rounds have elapsed without a click on Stop and with
\* the impostor alive, the result is "impostor wins by surviving": the phase
\* becomes finished, the result is logged, it is the only result in the log, and
\* no payout call is made.
C15_ImpostorSurvives ==
    [][\A t \in LoopIds :
        LastRoundElapses(t)
            => /\ gameState' = "finished"
               /\ Len(Appended(gameLog, gameLog')) >= 1
               /\ Appended(gameLog, gameLog')[1].tag = "impostorSurvives"
               /\ Cardinality(GameOverEntries(gameLog')) = 1
               /\ PayoutCount' = PayoutCount]_vars

C15_Witness ==
    /\ gameState = "finished"
    /\ round = maxRounds
    /\ HasTag(gameLog, "impostorSurvives")
    /\ ~HasTag(gameLog, "stoppedByUser")
    /\ LivingImpostors(agents) = 1

VotedOutTags == {"votedOutImpostor", "votedOutCrew"}
Living(s) == Cardinality({k \in 1..Len(s) : ~IsNull(s[k]) /\ s[k].alive})
TagCount(s, tags) == Cardinality({k \in 1..Len(s) : s[k].tag \in tags})

\* C16: every voting phase that runs to completion with at least two living
\* agents eliminates exactly one agent: the number of living agents goes down by
\* exactly one and exactly one "voted out" entry is logged.
C16_OneEliminationPerVote ==
    [][\A t \in LoopIds :
        (VotingResolves(t) /\ Living(agents) >= 2)
            => /\ ~HasNull(agents')
               /\ Living(agents') = Living(agents) - 1
               /\ TagCount(Appended(gameLog, gameLog'), VotedOutTags) = 1]_vars

\* A click on Play Again.
ResetStep == gameState = "finished" /\ gameState' = "setup"

\* C17: reset is offered in every finished state, whatever else is pending, and
\* returns the component to its initial state: phase setup, empty roster, empty
\* log, round 0, no selected impostor, not running, no error.
C17_ResetRestoresInitialState ==
    /\ [](gameState = "finished" => ENABLED resetGame)
    /\ [][ResetStep
            => /\ agents' = <<>>
               /\ gameLog' = <<>>
               /\ round' = 0
               /\ selectedImpostor' = NULL
               /\ ~isGameRunning' /\ ~gameRunningRef'
               /\ error' = "none"]_vars

C17_Witness ==
    /\ gameState = "setup"
    /\ loopStarts > 0
    /\ gameLog = <<>>
    /\ agents = <<>>
    /\ round = 0

\* C18: the log is append-only: a step other than a reset leaves the entries it
\* finds unchanged and in their order, and adds entries only at the end.
C18_LogAppendOnly ==
    [][gameLog' # gameLog
        => \/ IsPrefix(gameLog, gameLog') /\ Len(gameLog') > Len(gameLog)
           \/ ResetStep /\ gameLog' = <<>>]_vars

C18_Witness ==
    /\ Len(gameLog) >= 4
    /\ gameLog[1].tag = "betTransferred"
    /\ gameLog[2].tag = "gameStarted"
    /\ gameLog[Len(gameLog)].tag = "lostBet"

StatementTags == {"response", "filler"}

\* Agent id is a living agent of the roster s.
LivesIn(s, id) == \E k \in 1..Len(s) : ~IsNull(s[k]) /\ s[k].id = id /\ s[k].alive

\* C19: only living agents act: every statement logged is made by an agent that
\* is alive, every vote is cast by an agent that is alive and goes to an agent
\* that is alive.
C19_OnlyLivingAgentsAct ==
    [][LET new == Appended(gameLog, gameLog')
       IN \A k \in 1..Len(new) :
            /\ new[k].tag \in StatementTags => LivesIn(agents, new[k].agent)
            /\ new[k].tag = "votesFor"
                => LivesIn(agents, new[k].agent) /\ LivesIn(agents, new[k].arg)]_vars

\* C20: a voter that is not the impostor votes for the living agent other than
\* itself whose suspicionLevel is highest when the vote is cast, that is, after
\* the scoring of all statements made so far.
C20_VoteUsesCurrentSuspicion ==
    [][\A t \in LoopIds :
        (VoteCast(t) /\ ~HasNull(agents)
            /\ ~LivingOf(loopTasks'[t])[loopTasks'[t].voter].isImpostor)
            => LET vote == gameLog'[Len(gameLog')]
                   target == FindAgent(agents, vote.arg)
               IN /\ target.alive
                  /\ target.id # vote.agent
                  /\ \A k \in 1..Len(agents) :
                        (agents[k].alive /\ agents[k].id # vote.agent)
                            => agents[k].suspicionLevel <= target.suspicionLevel]_vars

\* The tally of loop t: votes[k] is the count for the agent of id k - 1.
TopTally(votes) == SetMax({votes[k] : k \in 1..Len(votes)})
TopIds(votes) == {k - 1 : k \in {j \in 1..Len(votes) : votes[j] = TopTally(votes)}}

\* The roster s with the agent of that id marked as not alive.
WithOut(s, id) ==
    [k \in 1..Len(s) |-> IF s[k].id = id THEN [s[k] EXCEPT !.alive = FALSE] ELSE s[k]]

\* C21: the resolution of a vote eliminates the candidate with the highest
\* tally, the one of lowest id when several share it, and logs who was voted
\* out; on a tally without any vote it eliminates nobody and logs that no one
\* was voted out.
C21_TopTallyIsEliminated ==
    [][\A t \in LoopIds :
        (VotingResolves(t) /\ ~HasNull(agents))
            => LET votes == loopTasks[t].votes
                   new == Appended(gameLog, gameLog')
                   empty == resolveVotes([World EXCEPT !.loopTasks[t].votes =
                                            [k \in 1..Len(votes) |-> 0]], t)
               IN /\ TopTally(votes) > 0
                  /\ agents' = WithOut(agents, SetMin(TopIds(votes)))
                  /\ Len(new) > 0
                  /\ new[1].tag \in VotedOutTags
                  /\ new[1].arg = SetMin(TopIds(votes))
                  /\ TagCount(new, VotedOutTags) = 1
                  /\ empty.agents = agents
                  /\ Len(empty.gameLog) > Len(gameLog)
                  /\ empty.gameLog[Len(gameLog) + 1].tag = "noOneVotedOut"
                  /\ TagCount(empty.gameLog, VotedOutTags) = TagCount(gameLog, VotedOutTags)]_vars

\* A vote was resolved on a tally whose highest count two candidates share.
C21_Witness ==
    \E t \in LoopIds :
        /\ loopTasks[t].pc = "roundDelay"
        /\ loopTasks[t].currentRound = VoteEvery
        /\ Cardinality(TopIds(loopTasks[t].votes)) > 1
        /\ TopTally(loopTasks[t].votes) > 0
        /\ HasTag(gameLog, "votedOutCrew")

\* Loop t leaves the statement loop of its round: the turn of the last agent of
\* its snapshot is over.
StatementsEnd(t) ==
    /\ loopTasks[t].pc \in {"chat", "delay"}
    /\ loopTasks'[t].pc \notin {"chat", "delay", "idle"}
    /\ loopTasks[t].i = Len(LivingOf(loopTasks[t]))

\* Loop t stands in the statement loop of its round.
InStatements(t) == loopTasks[t].pc \in {"chat", "delay"}

\* The ids of the agents that made a statement since the last round header of
\* the log s, in the order of their statements.
LastRoundHeader(s) == SetMax({0} \cup {k \in 1..Len(s) : s[k].tag = "round"})
SpeakersOfRound(s) ==
    LET tail == SubSeq(s, LastRoundHeader(s) + 1, Len(s))
        IsStatement(e) == e.tag \in StatementTags
        said == SeqFilter(tail, IsStatement)
    IN [k \in 1..Len(said) |-> said[k].agent]

WinTags == {"crewWins", "impostorWins"}

\* The last "game started" entry of the log s (0 when it has none): the game
\* in play is the one opened by the last click on "Start Among Us Game".
LastGameStart(s) == SetMax({0} \cup {k \in 1..Len(s) : s[k].tag = "gameStarted"})

\* The win check after a voting phase has ended the game in play.
WinFired ==
    \E k \in (LastGameStart(gameLog) + 1)..Len(gameLog) : gameLog[k].tag \in WinTags

NewGame == HasTag(Appended(gameLog, gameLog'), "gameStarted")

\* Loop t calls simpleChat for the next statement.
RequestsStatement(t) == loopTasks'[t].pc = "chat" /\ loopTasks'[t] # loopTasks[t]

\* C23: once the win check after a voting phase has fired, the loop that made
\* it has left the round loop, and until the game is reset or a new game is
\* started no round is entered, no statement is requested, no vote is cast and
\* the round counter keeps its value.
C23_WinStopsTheLoop ==
    [][/\ \A t \in LoopIds :
            (VotingEnds(t) /\ \E k \in 1..Len(Appended(gameLog, gameLog')) :
                                Appended(gameLog, gameLog')[k].tag \in WinTags)
                => loopTasks'[t].pc \in {"payout", "idle"}
       /\ (WinFired /\ ~NewGame)
            => /\ \A k \in 1..Len(Appended(gameLog, gameLog')) :
                    Appended(gameLog, gameLog')[k].tag \notin {"round", "votesFor"}
               /\ \A t \in LoopIds : ~RequestsStatement(t)
               /\ round' = round \/ ResetStep]_vars

\* A game ended by the win check of round 3, its payout call settled.
C23_Witness ==
    /\ WinFired
    /\ gameState = "finished"
    /\ round = VoteEvery
    /\ \A t \in LoopIds : loopTasks[t].pc = "idle"
    /\ HasTag(gameLog, "winnings")

\* The k-th entry of the log records a click on Stop during the game, and no
\* vote was resolved after it: a click during the delay after a vote that was
\* not the last of its phase, which conductVoting sees before the next vote.
CancelSeenInVoting(k) ==
    /\ gameLog[k].tag = "stoppedByUser"
    /\ HasTag(SubSeq(gameLog, 1, k), "gameStarted")
    /\ \E t \in LoopIds : stoppedAt[t] = "voteDelay"
    /\ \A j \in (k + 1)..Len(gameLog) : gameLog[j].tag \notin VotedOutTags \cup {"noOneVotedOut"}

\* C24: when a voting phase sees the click on Stop before one of its votes, it
\* ends without a tally and nothing runs after it: no vote, no new round, no
\* win verdict and no game-over entry follows the cancellation in the log.
C24_CancelDuringVotingEndsTheLoop ==
    \A k \in 1..Len(gameLog) :
        CancelSeenInVoting(k)
            => \A j \in (k + 1)..Len(gameLog) :
                    gameLog[j].tag \notin VerdictTags \cup {"round", "votesFor"}

\* The statement of loop t's speaker arrives and is scored.
StatementScored(t) == loopTasks[t].pc = "chat" /\ loopTasks'[t].pc = "delay"

\* C25: scoring a statement leaves the speaker's own suspicionLevel as it was,
\* and changes the id, alive or isImpostor field of no agent.
C25_SpeakerKeepsItsScore ==
    [][\A t \in LoopIds :
        StatementScored(t)
            => /\ Len(agents') = Len(agents)
               /\ \A k \in 1..Len(agents) :
                    /\ agents'[k].id = agents[k].id
                    /\ agents'[k].alive = agents[k].alive
                    /\ agents'[k].isImpostor = agents[k].isImpostor
                    /\ agents[k].id = Speaker(loopTasks[t]).id
                        => agents'[k].suspicionLevel = agents[k].suspicionLevel]_vars

\* Agent 0 has made, as the first statement of the game, one that names agent 0
\* or comes with a non-zero random draw for agent 0.
C25_Witness ==
    \E t \in LoopIds :
        /\ loopTasks[t].pc = "delay"
        /\ loopTasks[t].currentRound = 1
        /\ loopTasks[t].i = 1
        /\ Speaker(loopTasks[t]).id = 0
        /\ loopTasks[t].agents[1].suspicionLevel = 0
        /\ budget = ScoreBudget - 1
        /\ \A k \in 1..Len(agents) : agents[k].suspicionLevel = 0

\* C26: scoring a statement changes the suspicionLevel of living agents only:
\* the level of an agent that was voted out stays as it is.
C26_EliminatedKeepTheirScore ==
    [][\A t \in LoopIds :
        StatementScored(t)
            => \A k \in 1..Len(agents) :
                    (k <= Len(agents') /\ ~IsNull(agents[k]) /\ ~agents[k].alive)
                        => agents'[k].suspicionLevel = agents[k].suspicionLevel]_vars

\* The runGameLoop calls that stand inside the round loop.
LoopsInFlight == {t \in LoopIds : loopTasks[t].pc \notin {"idle", "payout"}}

\* C27: at most one round loop is in flight at any time, and the turns of a
\* round come one after the other: a step that opens a turn or a vote finds no
\* other dialogue call pending.
C27_OneLoopInFlight ==
    /\ Cardinality(LoopsInFlight) <= 1
    /\ Cardinality({t \in LoopIds : loopTasks[t].pc = "chat"}) <= 1

\* The runs of one game of MinAgents agents with neutral statements, in which a
\* dialogue call may fail and Stop may be clicked; every timer fires and every
\* dialogue call returns or fails.
InitLive == InitWith(MaxPerturb, FALSE, MinAgents)

LoopProgress ==
    \E t \in LoopIds :
        \/ ChatResponds(t, Neutral, UniformJitter(0))
        \/ ChatFails(t)
        \/ StatementDelayDone(t)
        \/ VoteDelayDone(t)
        \/ RoundDelayDone(t)

NextLive ==
    \/ \E b \in BalanceChoices : FetchBalance(b)
    \/ \E k \in StartIds : StartGame(k)
    \/ \E k \in StartIds : EscrowReturns(k, "ok")
    \/ \E k \in StartIds : InitAgentsDone(k, ZeroLevels(startTasks[k].count))
    \/ \E id \in 0..(MaxAgents - 1) : SelectImpostor(id)
    \/ \E t \in LoopIds : StartAmongUsGame(t, MaxLoopStarts)
    \/ \E t \in LoopIds : ChatResponds(t, Neutral, UniformJitter(0))
    \/ \E t \in LoopIds : ChatFails(t)
    \/ \E t \in LoopIds : StatementDelayDone(t)
    \/ \E t \in LoopIds : VoteDelayDone(t)
    \/ \E t \in LoopIds : RoundDelayDone(t)
    \/ stopGame

\* A runGameLoop call waits for a timer or a dialogue call: a step of
\* LoopProgress is possible.
LoopPending ==
    /\ ~crashed
    /\ \E t \in LoopIds : loopTasks[t].pc \in {"chat", "delay", "voteDelay", "roundDelay"}

\* Weak fairness of LoopProgress, WF_vars(LoopProgress), with the enabling
\* condition of LoopProgress written out as LoopPending.
LoopFairness == []<>(~LoopPending) \/ []<><<LoopProgress>>_vars

SpecLive == InitLive /\ [][NextLive]_vars /\ LoopFairness

\* Stop was clicked in the game in play.
Cancelled == gameState = "playing" /\ ~gameRunningRef

\* C28: a game that enters playing and is not cancelled reaches finished, after
\* at most 8 rounds, when every dialogue call returns or fails.
C28_GameTerminates ==
    (gameState = "playing" /\ ~Cancelled)
        ~> ((gameState = "finished" /\ round <= maxRounds) \/ Cancelled)

\* A game in which one dialogue call failed and Stop was never clicked has gone
\* through its 8 rounds.
C28_Witness ==
    /\ gameState = "finished"
    /\ round = maxRounds
    /\ HasTag(gameLog, "filler")
    /\ ~HasTag(gameLog, "stoppedByUser")
    /\ HasTag(gameLog, "impostorSurvives")

Eliminated(s) == Cardinality({k \in 1..Len(s) : ~IsNull(s[k]) /\ ~s[k].alive})

\* C29: between two resets at most two voting phases are held, at most two
\* agents of the roster are eliminated, and a roster of agents has at least two
\* living agents.
C29_AtMostTwoVotingPhases ==
    /\ TagCount(gameLog, {"votingPhase"}) <= 2
    /\ Eliminated(agents) <= 2
    /\ HasRoster(agents) => Living(agents) >= 2

\* The payout call of loop t settles after the game it ended was reset: the log
\* no longer holds the verdict that started the call.
PayoutSettlesAfterReset(t) ==
    /\ loopTasks[t].pc = "payout"
    /\ loopTasks'[t].pc = "idle"
    /\ ~HasTag(gameLog, "crewWins")

\* C30: a payout call that settles after Play Again was clicked leaves the new
\* session as it is: it appends nothing to the log and changes neither the
\* phase, nor the roster, nor the round counter.
C30_LatePayoutLeavesSessionClean ==
    [][\A t \in LoopIds :
        PayoutSettlesAfterReset(t)
            => /\ gameLog' = gameLog
               /\ gameState' = gameState
               /\ agents' = agents
               /\ round' = round]_vars

====
